---- MODULE Spec2Model ----
(***************************************************************************)
(* Job orchestration layer of the AgenticLoanOperations API                *)
(* (src/src/api/main.py): the in-memory job map, the ThreadPoolExecutor    *)
(* that runs process_loan_background, and the request handlers that run on *)
(* the event loop.  Worker threads run in parallel with the event loop and *)
(* with each other; every statement of process_loan_background that writes *)
(* a field of a job record is one step of its worker.                      *)
(***************************************************************************)
EXTENDS Integers, Sequences, FiniteSets, TLC

\* ------------------------------------------------------------------ bounds
\* Submissions explored by Spec, the whole program.
MaxJobs == 2
\* Submissions explored by SpecPool and SpecFair, the executor under load: more
\* than the pool has threads, so that work has to queue.
MaxPoolJobs == 4

\* ------------------------------------------------------- program constants
\* A pool one thread larger than the program's.
max_workers_plus_one == 3 + 1

\* executor = ThreadPoolExecutor(max_workers=3)
max_workers == 3

Workers == 1..max_workers

\* Optional[T]: None, or a value.
None == <<>>
Some(v) == <<v>>

\* ----------------------------------------------------------- collaborators
\* SAMPLE_LOANS_DIR as the process finds it at start: file name -> content.
\* A content is the loan_id stored in the file, or "#invalid" for a file that
\* LoanFile.from_json rejects.
SAMPLE_LOANS_DIR == [f \in {"L1.json", "L2.json"} |->
                        IF f = "L1.json" THEN "L1" ELSE "#invalid"]

\* The outcome of a call: a returned value or a raised exception.
Return(v) == [raised |-> FALSE, value |-> v]
Raise(type, msg) == [raised |-> TRUE, value |-> [type |-> type, msg |-> msg]]

\* str(e) of a raised exception: its message, without its type.
str(e) == e.msg

\* LoanFile.from_json(path): the parsed loan file, or a validation error.
from_json(dir, path) ==
    IF dir[path] = "#invalid"
    THEN Raise("ValidationError", "invalid loan file")
    ELSE Return([loan_id |-> dir[path]])

\* LoanOperationsCrew(loan_file).run(): returns a report or raises; which of
\* the two is the collaborator's choice `run`.
CrewRunOutcomes == {"report", "#raise"}
crew_run(loan_file, run) ==
    IF run = "#raise"
    THEN Raise("RuntimeError", "workflow failed")
    ELSE Return(run)

\* get_loan_file_path(loan_id): "<dir>/<loan_id>.json" if it exists, else
\* "<dir>/<loan_id>" if it exists, else HTTPException(404).
get_loan_file_path(dir, loan_id) ==
    IF (loan_id \o ".json") \in DOMAIN dir THEN Return(loan_id \o ".json")
    ELSE IF loan_id \in DOMAIN dir THEN Return(loan_id)
    ELSE Raise("HTTPException", "404: Loan file not found: " \o loan_id)

\* The artifact process_loan_sync writes for a loan file.
output_file_of(loan_file) == loan_file.loan_id \o "_operations_report.md"

\* ProcessResponse(...), without its timing fields.
ProcessResponse(loan_file, output_file) ==
    [loan_id |-> loan_file.loan_id, status |-> "completed",
     output_file |-> output_file]

\* process_loan_sync(loan_id): look the file up, parse it, run the workflow,
\* write the artifact, build the response.  `run` is the workflow's outcome and
\* `can_write` whether open(output_file, 'w') succeeds.  The value is the
\* call's outcome and the artifact it wrote, if any.
process_loan_sync(dir, loan_id, run, can_write) ==
    LET loan_path == get_loan_file_path(dir, loan_id) IN
    IF loan_path.raised THEN [outcome |-> loan_path, wrote |-> None] ELSE
    LET loan_file == from_json(dir, loan_path.value) IN
    IF loan_file.raised THEN [outcome |-> loan_file, wrote |-> None] ELSE
    LET result == crew_run(loan_file.value, run) IN
    IF result.raised THEN [outcome |-> result, wrote |-> None] ELSE
    LET output_file == output_file_of(loan_file.value) IN
    IF ~can_write
    THEN [outcome |-> Raise("OSError", "cannot write " \o output_file),
          wrote |-> None]
    ELSE [outcome |-> Return(ProcessResponse(loan_file.value, output_file)),
          wrote |-> Some(output_file)]

\* ------------------------------------------------------------------- state
VARIABLES
    jobs,          \* jobs: dict[str, JobStatus]
    work_queue,    \* the executor's queue of submitted calls, oldest first
    pc,            \* per worker thread: where it is in process_loan_background
    cur,           \* per worker thread: the call it runs (job_id, loan_id)
    local,         \* per worker thread: `result` or `e` of its call
    loan_dir,      \* the files of SAMPLE_LOANS_DIR now
    output_files,  \* the artifacts written to OUTPUT_DIR
    lifespan_pc,   \* "serving", "shutdown" (in executor.shutdown), "stopped"
    loop,          \* the process_loan_sync call the event loop is inside, if any
    response,      \* the last response the event loop produced
    sync_outcome,  \* history: per executed job, what process_loan_sync did
    returned       \* history: the job ids given out by accepted submissions

vars == <<jobs, work_queue, pc, cur, local, loan_dir, output_files,
          lifespan_pc, loop, response, sync_outcome, returned>>

\* JobStatus(job_id, loan_id, status, created_at): result, error and
\* completed_at default to None.
JobStatus(job_id, loan_id, status, created_at) ==
    [job_id |-> job_id, loan_id |-> loan_id, status |-> status,
     result |-> None, error |-> None,
     created_at |-> created_at, completed_at |-> None]

\* datetime.now().isoformat(): a timestamp.
now == "timestamp"

\* str(uuid.uuid4()): an identifier no record has yet.
uuid4_repeating == Cardinality({}) + 1
uuid4 == Cardinality(DOMAIN jobs) + 1

Init ==
    /\ jobs = <<>>
    /\ work_queue = <<>>
    /\ pc = [w \in Workers |-> "idle"]
    /\ cur = [w \in Workers |-> None]
    /\ local = [w \in Workers |-> None]
    /\ loan_dir = SAMPLE_LOANS_DIR
    /\ output_files = {}
    /\ lifespan_pc = "serving"
    /\ loop = None
    /\ response = None
    /\ sync_outcome = <<>>
    /\ returned = <<>>

\* jobs[job_id] = record
dict_set(d, k, v) == [x \in DOMAIN d \cup {k} |-> IF x = k THEN v ELSE d[x]]

\* executor.submit on a queue that holds at most two calls: a put on a full
\* queue waits.
executor_submit_bounded(item) ==
    /\ Len(work_queue) < 2
    /\ work_queue' = Append(work_queue, item)

\* executor.submit(fn, *args): the call joins the queue.
executor_submit(item) == work_queue' = Append(work_queue, item)

\* ---------------------------------------------------- event-loop handlers
\* A handler is an `async def` without an await: it runs to its end on the
\* event loop's thread before the next one starts, and the worker threads run
\* meanwhile.  Requests are served until shutdown.

\* process_loan_async with the record stored (lines 285-291) before the file
\* is looked up (line 283).
process_loan_async_record_first(loan_id) ==
    /\ lifespan_pc = "serving"
    /\ loop = None
    /\ LET found == get_loan_file_path(loan_dir, loan_id)
           job_id == uuid4
       IN  /\ jobs' = dict_set(jobs, job_id,
                               JobStatus(job_id, loan_id, "pending", now))
           /\ IF found.raised
              THEN /\ response' = Some([endpoint |-> "process_async", code |-> 404,
                                        body |-> found.value.msg])
                   /\ UNCHANGED <<work_queue, returned>>
              ELSE /\ returned' = Append(returned, job_id)
                   /\ executor_submit([job_id |-> job_id, loan_id |-> loan_id])
                   /\ response' = Some([endpoint |-> "process_async", code |-> 200,
                                        body |-> [job_id |-> job_id,
                                                  loan_id |-> loan_id,
                                                  status |-> "pending"]])
    /\ UNCHANGED <<pc, cur, local, loan_dir, output_files, lifespan_pc,
                   sync_outcome, loop>>

\* POST /api/v1/process/async
process_loan_async(loan_id) ==
    /\ lifespan_pc = "serving"
    /\ loop = None
    /\ LET found == get_loan_file_path(loan_dir, loan_id)
           job_id == uuid4
       IN  IF found.raised
           THEN /\ response' = Some([endpoint |-> "process_async", code |-> 404,
                                     body |-> found.value.msg])
                /\ UNCHANGED <<jobs, work_queue, returned>>
           ELSE /\ returned' = Append(returned, job_id)
                /\ jobs' = dict_set(jobs, job_id,
                                    JobStatus(job_id, loan_id, "pending", now))
                /\ executor_submit([job_id |-> job_id, loan_id |-> loan_id])
                /\ response' = Some([endpoint |-> "process_async", code |-> 200,
                                     body |-> [job_id |-> job_id,
                                               loan_id |-> loan_id,
                                               status |-> "pending"]])
    /\ UNCHANGED <<pc, cur, local, loan_dir, output_files, lifespan_pc,
                   sync_outcome, loop>>

\* get_job_status answering 404 for a record no worker has started.
get_job_status_hiding_pending(job_id) ==
    /\ lifespan_pc = "serving"
    /\ loop = None
    /\ IF job_id \notin DOMAIN jobs \/ jobs[job_id].status = "pending"
       THEN response' = Some([endpoint |-> "jobs", code |-> 404,
                              body |-> job_id])
       ELSE response' = Some([endpoint |-> "jobs", code |-> 200,
                              body |-> jobs[job_id]])
    /\ UNCHANGED <<jobs, work_queue, pc, cur, local, loan_dir, output_files,
                   lifespan_pc, sync_outcome, returned, loop>>

\* GET /api/v1/jobs/{job_id}
get_job_status(job_id) ==
    /\ lifespan_pc = "serving"
    /\ loop = None
    /\ IF job_id \notin DOMAIN jobs
       THEN response' = Some([endpoint |-> "jobs", code |-> 404,
                              body |-> job_id])
       ELSE response' = Some([endpoint |-> "jobs", code |-> 200,
                              body |-> jobs[job_id]])
    /\ UNCHANGED <<jobs, work_queue, pc, cur, local, loan_dir, output_files,
                   lifespan_pc, sync_outcome, returned, loop>>

\* POST /api/v1/process: process_loan_sync on the event loop.  An
\* HTTPException becomes its status code, any other exception a 500.
process_loan(loan_id) ==
    /\ lifespan_pc = "serving"
    /\ loop = None
    /\ \E run \in CrewRunOutcomes, can_write \in BOOLEAN :
         LET r == process_loan_sync(loan_dir, loan_id, run, can_write) IN
         /\ output_files' = output_files \cup {r.wrote[i] : i \in DOMAIN r.wrote}
         /\ response' = Some([endpoint |-> "process",
                code |-> IF ~r.outcome.raised THEN 200
                         ELSE IF r.outcome.value.type = "HTTPException"
                              THEN 404 ELSE 500,
                body |-> r.outcome.value])
    /\ UNCHANGED <<jobs, work_queue, pc, cur, local, loan_dir, lifespan_pc,
                   sync_outcome, returned, loop>>

\* ------------------------------------------------------- worker threads
\* worker_take leaving the call in the queue.
worker_take_peek(w) ==
    /\ pc[w] = "idle"
    /\ \A v \in Workers : v < w => pc[v] # "idle"
    /\ work_queue # <<>>
    /\ cur' = [cur EXCEPT ![w] = Some(Head(work_queue))]
    /\ pc' = [pc EXCEPT ![w] = "l192"]
    /\ UNCHANGED <<jobs, work_queue, local, loan_dir, output_files, lifespan_pc,
                   response, sync_outcome, returned, loop>>

\* A pool thread takes the oldest queued call.  The threads are identical, so
\* of the idle ones the lowest-numbered is taken to be the one that wakes.
worker_take(w) ==
    /\ pc[w] = "idle"
    /\ \A v \in Workers : v < w => pc[v] # "idle"
    /\ work_queue # <<>>
    /\ cur' = [cur EXCEPT ![w] = Some(Head(work_queue))]
    /\ work_queue' = Tail(work_queue)
    /\ pc' = [pc EXCEPT ![w] = "l192"]
    /\ UNCHANGED <<jobs, local, loan_dir, output_files, lifespan_pc, response,
                   sync_outcome, returned, loop>>

\* The write applied to the records of the job's loan_id, as if jobs were
\* keyed by subject.
set_field_by_loan_id(job_id, field, value) ==
    jobs' = [j \in DOMAIN jobs |->
                IF jobs[j].loan_id = jobs[job_id].loan_id
                THEN [jobs[j] EXCEPT ![field] = value]
                ELSE jobs[j]]

\* jobs[job_id].<field> = value
set_field(job_id, field, value) ==
    jobs' = [jobs EXCEPT ![job_id] = [@ EXCEPT ![field] = value]]

\* One statement of process_loan_background(job_id, loan_id, verbose) that
\* writes a field: the statement at `at` writes `field`, then control is at
\* `next`.
background_write(w, at, field, value, next) ==
    /\ pc[w] = at
    /\ set_field(cur[w][1].job_id, field, value)
    /\ pc' = [pc EXCEPT ![w] = next]
    /\ IF next = "idle"
       THEN cur' = [cur EXCEPT ![w] = None] /\ local' = [local EXCEPT ![w] = None]
       ELSE UNCHANGED <<cur, local>>
    /\ UNCHANGED <<work_queue, loan_dir, output_files, lifespan_pc, response,
                   sync_outcome, returned, loop>>

\* line 192 left out: the record is never marked "processing".
background_processing_skipped(w) ==
    /\ pc[w] = "l192"
    /\ pc' = [pc EXCEPT ![w] = "l195"]
    /\ UNCHANGED <<jobs, work_queue, cur, local, loan_dir, output_files,
                   lifespan_pc, response, sync_outcome, returned, loop>>

\* line 192
background_processing(w) ==
    background_write(w, "l192", "status", "processing", "l195")

\* line 195 with an except clause that does not match: the exception leaves
\* process_loan_background and the thread goes on to its next call.
background_sync_uncaught(w, disk) ==
    /\ pc[w] = "l195"
    /\ \E run \in CrewRunOutcomes, can_write \in disk :
         LET r == process_loan_sync(loan_dir, cur[w][1].loan_id, run, can_write)
             job_id == cur[w][1].job_id
         IN  /\ output_files' = output_files \cup {r.wrote[i] : i \in DOMAIN r.wrote}
             /\ sync_outcome' = dict_set(sync_outcome, job_id, r.outcome)
             /\ IF r.outcome.raised
                THEN /\ pc' = [pc EXCEPT ![w] = "idle"]
                     /\ cur' = [cur EXCEPT ![w] = None]
                     /\ UNCHANGED local
                ELSE /\ pc' = [pc EXCEPT ![w] = "l196"]
                     /\ local' = [local EXCEPT ![w] = Some(r.outcome)]
                     /\ UNCHANGED cur
    /\ UNCHANGED <<jobs, work_queue, loan_dir, lifespan_pc, response, returned, loop>>

\* line 195: result = process_loan_sync(loan_id, verbose), or the except
\* clause takes the exception as e.  `disk` holds the answers open() may give.
background_sync(w, disk) ==
    /\ pc[w] = "l195"
    /\ \E run \in CrewRunOutcomes, can_write \in disk :
         LET r == process_loan_sync(loan_dir, cur[w][1].loan_id, run, can_write)
         IN  /\ output_files' = output_files \cup {r.wrote[i] : i \in DOMAIN r.wrote}
             /\ local' = [local EXCEPT ![w] = Some(r.outcome)]
             /\ sync_outcome' = dict_set(sync_outcome, cur[w][1].job_id, r.outcome)
             /\ pc' = [pc EXCEPT ![w] = IF r.outcome.raised THEN "l200" ELSE "l196"]
    /\ UNCHANGED <<jobs, work_queue, cur, loan_dir, lifespan_pc, response,
                   returned, loop>>

\* lines 196-198 with the result stored before the status.
background_completed_result_first(w) ==
    \/ background_write(w, "l196", "result", Some(local[w][1].value), "l197")
    \/ background_write(w, "l197", "status", "completed", "l198")
    \/ background_write(w, "l198", "completed_at", Some(now), "idle")

\* lines 196-198
background_completed(w) ==
    \/ background_write(w, "l196", "status", "completed", "l197")
    \/ background_write(w, "l197", "result", Some(local[w][1].value), "l198")
    \/ background_write(w, "l198", "completed_at", Some(now), "idle")

\* lines 200-202 storing a fixed text instead of str(e).
background_failed_fixed_text(w) ==
    \/ background_write(w, "l200", "status", "failed", "l201")
    \/ background_write(w, "l201", "error", Some("Processing failed"), "l202")
    \/ background_write(w, "l202", "completed_at", Some(now), "idle")

\* lines 200-202 with the thread ending after the failure is recorded.
background_failed_thread_ends(w) ==
    \/ background_write(w, "l200", "status", "failed", "l201")
    \/ background_write(w, "l201", "error", Some(str(local[w][1].value)), "l202")
    \/ /\ pc[w] = "l202"
       /\ set_field(cur[w][1].job_id, "completed_at", Some(now))
       /\ pc' = [pc EXCEPT ![w] = "ended"]
       /\ cur' = [cur EXCEPT ![w] = None]
       /\ local' = [local EXCEPT ![w] = None]
       /\ UNCHANGED <<work_queue, loan_dir, output_files, lifespan_pc, response,
                      sync_outcome, returned, loop>>

\* lines 200-202
background_failed(w) ==
    \/ background_write(w, "l200", "status", "failed", "l201")
    \/ background_write(w, "l201", "error", Some(str(local[w][1].value)), "l202")
    \/ background_write(w, "l202", "completed_at", Some(now), "idle")

process_loan_background(w, disk) ==
    \/ background_processing(w)
    \/ background_sync(w, disk)
    \/ background_completed(w)
    \/ background_failed(w)

\* ----------------------------- process_loan_sync, statement by statement
\* A call of process_loan_sync that has started, and where it is:
\*   "l164"  inside LoanOperationsCrew(loan_file).run()
\*   "l174"  output_file is open for writing (lines 173-178)
sync_frame(at, loan_file) == [at |-> at, loan_file |-> loan_file]

\* What a step of the call yields: the call goes on in `frame`, or it is over
\* with `outcome`; `wrote` is the artifact the step opened for writing.
sync_goes_on(frame, wrote) ==
    [frame |-> Some(frame), outcome |-> None, wrote |-> wrote]
sync_over(outcome) ==
    [frame |-> None, outcome |-> Some(outcome), wrote |-> None]

\* The next step of process_loan_sync(loan_id) from `frame` (None: the call
\* starts).  Lines 159-163 look the file up and parse it; line 164 is the
\* workflow, after which lines 166-173 open the artifact; lines 174-180 write
\* it, close it and return.
sync_step(frame, dir, loan_id, run, can_write) ==
    IF frame = None THEN
        LET loan_path == get_loan_file_path(dir, loan_id) IN
        IF loan_path.raised THEN sync_over(loan_path) ELSE
        LET loan_file == from_json(dir, loan_path.value) IN
        IF loan_file.raised THEN sync_over(loan_file)
        ELSE sync_goes_on(sync_frame("l164", loan_file.value), None)
    ELSE IF frame[1].at = "l164" THEN
        LET result == crew_run(frame[1].loan_file, run)
            output_file == output_file_of(frame[1].loan_file)
        IN  IF result.raised THEN sync_over(result)
            ELSE IF ~can_write
            THEN sync_over(Raise("OSError", "cannot write " \o output_file))
            ELSE sync_goes_on(sync_frame("l174", frame[1].loan_file),
                              Some(output_file))
    ELSE sync_over(Return(ProcessResponse(frame[1].loan_file,
                              output_file_of(frame[1].loan_file))))

\* POST /api/v1/process, statement by statement.  The handler calls
\* process_loan_sync on the event loop's thread without an await, so the
\* loop is inside the call, and serves nothing else, until the call is over.
process_loan_advance(loan_id, frame) ==
    /\ \E run \in CrewRunOutcomes, can_write \in BOOLEAN :
         LET step == sync_step(frame, loan_dir, loan_id, run, can_write) IN
         /\ output_files' =
                output_files \cup {step.wrote[i] : i \in DOMAIN step.wrote}
         /\ IF step.outcome = None
            THEN /\ loop' = Some([loan_id |-> loan_id, frame |-> step.frame])
                 /\ UNCHANGED response
            ELSE /\ loop' = None
                 /\ response' = Some([endpoint |-> "process",
                        code |-> IF ~step.outcome[1].raised THEN 200
                                 ELSE IF step.outcome[1].value.type = "HTTPException"
                                      THEN 404 ELSE 500,
                        body |-> step.outcome[1].value])
    /\ UNCHANGED <<jobs, work_queue, pc, cur, local, loan_dir, lifespan_pc,
                   sync_outcome, returned>>

\* The request arrives and the call starts.
process_loan_entered(loan_id) ==
    /\ lifespan_pc = "serving"
    /\ loop = None
    /\ process_loan_advance(loan_id, None)

\* The call goes on.
process_loan_resumed ==
    /\ loop # None
    /\ process_loan_advance(loop[1].loan_id, loop[1].frame)

\* line 195, statement by statement: the worker's call of process_loan_sync
\* keeps its frame in the thread until it returns or raises.
background_sync_steps(w, disk) ==
    /\ pc[w] = "l195"
    /\ \E run \in CrewRunOutcomes, can_write \in disk :
         LET step == sync_step(local[w], loan_dir, cur[w][1].loan_id, run,
                               can_write)
         IN  /\ output_files' =
                    output_files \cup {step.wrote[i] : i \in DOMAIN step.wrote}
             /\ IF step.outcome = None
                THEN /\ local' = [local EXCEPT ![w] = step.frame]
                     /\ UNCHANGED <<pc, sync_outcome>>
                ELSE /\ local' = [local EXCEPT ![w] = step.outcome]
                     /\ sync_outcome' = dict_set(sync_outcome, cur[w][1].job_id,
                                                 step.outcome[1])
                     /\ pc' = [pc EXCEPT ![w] =
                                  IF step.outcome[1].raised THEN "l200" ELSE "l196"]
    /\ UNCHANGED <<jobs, work_queue, cur, loan_dir, lifespan_pc, response,
                   returned, loop>>

process_loan_background_steps(w, disk) ==
    \/ background_processing(w)
    \/ background_sync_steps(w, disk)
    \/ background_completed(w)
    \/ background_failed(w)

\* ------------------------------------------------- directory handlers
\* sample_dir.glob("*.json"): the names that end in ".json".
glob_json(dir) ==
    {f \in DOMAIN dir : /\ Len(f) >= Len(".json")
                        /\ SubSeq(f, Len(f) - Len(".json") + 1, Len(f)) = ".json"}

\* The orders in which a directory scan may yield a set of names.
scan_orders(names) ==
    {o \in [1..Cardinality(names) -> names] :
        \A f \in names : \E i \in DOMAIN o : o[i] = f}

\* GET /health: sample_loans_available is the number of "*.json" names.
health_check ==
    /\ lifespan_pc = "serving"
    /\ loop = None
    /\ response' = Some([endpoint |-> "health", code |-> 200,
                         body |-> [status |-> "healthy",
                                   sample_loans_available |->
                                       Cardinality(glob_json(loan_dir))]])
    /\ UNCHANGED <<jobs, work_queue, pc, cur, local, loan_dir, output_files,
                   lifespan_pc, sync_outcome, returned, loop>>

\* The loop of list_loans over the scanned names: a file that parses adds
\* its summary, a file from_json rejects is skipped.
RECURSIVE list_loans_from(_, _, _)
list_loans_from(dir, order, i) ==
    IF i > Len(order) THEN <<>>
    ELSE LET loan_file == from_json(dir, order[i]) IN
         (IF loan_file.raised THEN <<>>
          ELSE <<[loan_id |-> loan_file.value.loan_id]>>)
         \o list_loans_from(dir, order, i + 1)

\* GET /api/v1/loans
list_loans ==
    /\ lifespan_pc = "serving"
    /\ loop = None
    /\ \E order \in scan_orders(glob_json(loan_dir)) :
         response' = Some([endpoint |-> "loans", code |-> 200,
                           body |-> list_loans_from(loan_dir, order, 1)])
    /\ UNCHANGED <<jobs, work_queue, pc, cur, local, loan_dir, output_files,
                   lifespan_pc, sync_outcome, returned, loop>>

\* GET /api/v1/loans/{loan_id}: the summary of one file; a file from_json
\* rejects is an unhandled exception, a 500.
get_loan(loan_id) ==
    /\ lifespan_pc = "serving"
    /\ loop = None
    /\ LET loan_path == get_loan_file_path(loan_dir, loan_id) IN
       IF loan_path.raised
       THEN response' = Some([endpoint |-> "loan", code |-> 404,
                              body |-> loan_path.value])
       ELSE LET loan_file == from_json(loan_dir, loan_path.value) IN
            response' = Some([endpoint |-> "loan",
                              code |-> IF loan_file.raised THEN 500 ELSE 200,
                              body |-> loan_file.value])
    /\ UNCHANGED <<jobs, work_queue, pc, cur, local, loan_dir, output_files,
                   lifespan_pc, sync_outcome, returned, loop>>

\* ------------------------------------------------------------- lifespan
\* executor.shutdown(wait=False): the call returns without waiting for the
\* threads.
lifespan_shutdown_no_wait ==
    /\ \/ /\ lifespan_pc = "serving"
          /\ lifespan_pc' = "shutdown"
       \/ /\ lifespan_pc = "shutdown"
          /\ lifespan_pc' = "stopped"
    /\ UNCHANGED <<jobs, work_queue, pc, cur, local, loan_dir, output_files,
                   response, sync_outcome, returned, loop>>

\* executor.shutdown(wait=True), after the server has stopped serving: the
\* threads run what is queued and leave, and the call returns once they have.
lifespan_shutdown ==
    /\ \/ /\ lifespan_pc = "serving"
          /\ lifespan_pc' = "shutdown"
       \/ /\ lifespan_pc = "shutdown"
          /\ work_queue = <<>>
          /\ \A w \in Workers : pc[w] = "idle"
          /\ lifespan_pc' = "stopped"
    /\ UNCHANGED <<jobs, work_queue, pc, cur, local, loan_dir, output_files,
                   response, sync_outcome, returned, loop>>

\* ---------------------------------------------------------- environment
\* A file of SAMPLE_LOANS_DIR is removed from outside the process.
remove_loan_file ==
    /\ \E f \in DOMAIN loan_dir :
         loan_dir' = [g \in DOMAIN loan_dir \ {f} |-> loan_dir[g]]
    /\ UNCHANGED <<jobs, work_queue, pc, cur, local, output_files, lifespan_pc,
                   response, sync_outcome, returned, loop>>

\* --------------------------------------------------------- specifications
\* Identifiers a request may name: a loan file, a file from_json rejects, and
\* a name no file has.
LoanIdInputs == {"L1", "L2", "X"}

Submit(n, ids) ==
    \E loan_id \in ids : Cardinality(DOMAIN jobs) < n /\ process_loan_async(loan_id)

Poll(n) == \E job_id \in 1..(n + 1) : get_job_status(job_id)

ProcessSync == \E loan_id \in LoanIdInputs : process_loan(loan_id)

WorkerTake == \E w \in Workers : worker_take(w)

WorkerRun(disk) == \E w \in Workers : process_loan_background(w, disk)

\* The whole program: every handler, the pool, shutdown, and the directory
\* changing under it.
Next ==
    \/ Submit(MaxJobs, LoanIdInputs)
    \/ Poll(MaxJobs)
    \/ ProcessSync
    \/ WorkerTake
    \/ WorkerRun(BOOLEAN)
    \/ lifespan_shutdown
    \/ remove_loan_file

Spec == Init /\ [][Next]_vars

\* The executor under load: submissions for a loan file that resolves, whose
\* workflow returns or raises, and for a name that does not, and the pool.
NextPool ==
    \/ Submit(MaxPoolJobs, {"L1", "X"})
    \/ WorkerTake
    \/ WorkerRun({TRUE})

SpecPool == Init /\ [][NextPool]_vars

\* The same with the pool's threads scheduled: while some thread can take a
\* call or run its next statement, one of them eventually does (a call to the
\* workflow returns or raises).  Nothing obliges a client to submit.
SpecFair ==
    /\ Init
    /\ [][NextPool]_vars
    /\ WF_vars(WorkerTake \/ WorkerRun({TRUE}))

\* The pool and its shutdown: submissions until the server stops serving,
\* then executor.shutdown(wait=True).
NextShutdown ==
    \/ Submit(MaxPoolJobs, {"L1", "X"})
    \/ WorkerTake
    \/ WorkerRun({TRUE})
    \/ lifespan_shutdown

SpecShutdown == Init /\ [][NextShutdown]_vars

\* The API statement by statement: every handler, with process_loan_sync run
\* in steps by the event loop and by the pool's threads.  Requests name a
\* loan file in either form the lookup accepts, or a name no file has.
MaxApiJobs == 2

ApiLoanIds == {"L1", "L1.json", "X"}

ProcessSyncSteps ==
    \/ \E loan_id \in ApiLoanIds : process_loan_entered(loan_id)
    \/ process_loan_resumed

WorkerRunSteps(disk) == \E w \in Workers : process_loan_background_steps(w, disk)

ReadLoans ==
    \/ health_check
    \/ list_loans
    \/ \E loan_id \in ApiLoanIds : get_loan(loan_id)

NextApi ==
    \/ Submit(MaxApiJobs, ApiLoanIds)
    \/ Poll(MaxApiJobs)
    \/ ProcessSyncSteps
    \/ ReadLoans
    \/ WorkerTake
    \/ WorkerRunSteps({TRUE})
    \/ remove_loan_file

SpecApi == Init /\ [][NextApi]_vars

\* -------------------------------------------------------------- properties
Terminal == {"completed", "failed"}

Rank(status) ==
    CASE status = "pending" -> 0
      [] status = "processing" -> 1
      [] status \in Terminal -> 2

\* The record a worker thread is executing, if any.
Executing(w) == {cur[w][i].job_id : i \in DOMAIN cur[w]}

\* The last response, when it is a served status read.
StatusReads ==
    {response[i].body : i \in {k \in DOMAIN response :
                                   /\ response[k].endpoint = "jobs"
                                   /\ response[k].code = 200}}

\* C1: whenever a status read can run, a record is "completed" exactly when it
\* has a result and "failed" exactly when it has an error.
C1_ResultAndErrorMatchStatus ==
    lifespan_pc = "serving" =>
        \A j \in DOMAIN jobs :
            /\ jobs[j].status = "completed" <=> jobs[j].result # None
            /\ jobs[j].status = "failed" <=> jobs[j].error # None

\* C2: in every step each record keeps its status or moves it pending ->
\* processing or processing -> completed/failed, and a status a reader was
\* given is never ahead of the record, so a later read is never behind an
\* earlier one.
C2_StatusOnlyAdvances ==
    [][/\ \A j \in DOMAIN jobs :
            /\ j \in DOMAIN jobs'
            /\ \/ jobs'[j].status = jobs[j].status
               \/ jobs[j].status = "pending" /\ jobs'[j].status = "processing"
               \/ jobs[j].status = "processing" /\ jobs'[j].status \in Terminal
       /\ \A seen \in StatusReads' :
            Rank(seen.status) <= Rank(jobs'[seen.job_id].status)]_vars

\* C2 witness: a reader was given "processing" and the record has since
\* reached "failed".
C2_Witness ==
    \E seen \in StatusReads :
        seen.status = "processing" /\ jobs[seen.job_id].status = "failed"

\* C3: a "pending" or "processing" record has neither result nor error, and
\* no record has both.
C3_ResultErrorOnlyAfterTerminal ==
    \A j \in DOMAIN jobs :
        /\ jobs[j].status \in {"pending", "processing"} =>
               jobs[j].result = None /\ jobs[j].error = None
        /\ ~(jobs[j].result # None /\ jobs[j].error # None)

\* C3 witness: one record holds a result, another an error, while a third is
\* being processed and a fourth waits.
C3_Witness ==
    \E a, b, c, d \in DOMAIN jobs :
        /\ jobs[a].result # None
        /\ jobs[b].error # None
        /\ jobs[c].status = "processing"
        /\ jobs[d].status = "pending"

\* C4: whenever a status read can run, completed_at is set exactly for the
\* records that are "completed" or "failed".
C4_CompletedAtIffTerminal ==
    lifespan_pc = "serving" =>
        \A j \in DOMAIN jobs :
            jobs[j].completed_at # None <=> jobs[j].status \in Terminal

\* C5: no two threads execute the same job, and a job being executed is not
\* queued as well.
C5_OneExecutionPerJob ==
    /\ \A v, w \in Workers : v # w => Executing(v) \cap Executing(w) = {}
    /\ \A w \in Workers, i \in DOMAIN work_queue :
           work_queue[i].job_id \notin Executing(w)
    /\ \A i, k \in DOMAIN work_queue :
           i # k => work_queue[i].job_id # work_queue[k].job_id

\* C5 witness: every thread of the pool is executing a job while another job
\* waits.
C5_Witness ==
    /\ \A w \in Workers : Executing(w) # {}
    /\ work_queue # <<>>

\* Job ids SpecPool and SpecFair can give out.
PoolJobIds == 1..MaxPoolJobs

\* C6: under fair scheduling every job an accepted submission created reaches
\* "completed" or "failed".
C6_EveryJobReachesTerminal ==
    \A j \in PoolJobIds :
        (j \in DOMAIN jobs) ~> (j \in DOMAIN jobs /\ jobs[j].status \in Terminal)

\* C6 witness: more jobs than the pool has threads were accepted and all have
\* reached a terminal status.
C6_Witness ==
    /\ Len(returned) > 3
    /\ \A j \in DOMAIN jobs : jobs[j].status \in Terminal

\* The jobs the pool is executing.
ExecutingJobs == UNION {Executing(w) : w \in Workers}

\* C7: at most 3 jobs are being executed and at most 3 records are
\* "processing"; every queued job is "pending".
C7_AtMostThreeExecuting ==
    /\ Cardinality(ExecutingJobs) <= 3
    /\ Cardinality({j \in DOMAIN jobs : jobs[j].status = "processing"}) <= 3
    /\ \A i \in DOMAIN work_queue : jobs[work_queue[i].job_id].status = "pending"

\* C7 witness: 3 records are "processing" and a further accepted job waits in
\* the queue.
C7_Witness ==
    /\ Cardinality({j \in DOMAIN jobs : jobs[j].status = "processing"}) = 3
    /\ work_queue # <<>>

\* C8: a record is "completed" or "failed" only after its process_loan_sync
\* call ended, "completed" exactly when the call returned; once its last field
\* is written it holds the returned value and no error, or the text of the
\* raised exception and no result; and an executed job no thread holds any
\* more has had its last field written.
C8_TerminalStatusMatchesOutcome ==
    /\ \A j \in DOMAIN jobs :
        /\ jobs[j].status \in Terminal =>
             /\ j \in DOMAIN sync_outcome
             /\ jobs[j].status = "completed" <=> ~sync_outcome[j].raised
        /\ jobs[j].completed_at # None =>
             IF sync_outcome[j].raised
             THEN /\ jobs[j].status = "failed"
                  /\ jobs[j].error = Some(str(sync_outcome[j].value))
                  /\ jobs[j].result = None
             ELSE /\ jobs[j].status = "completed"
                  /\ jobs[j].result = Some(sync_outcome[j].value)
                  /\ jobs[j].error = None
    /\ \A j \in DOMAIN sync_outcome :
        j \notin ExecutingJobs => jobs[j].completed_at # None

\* C8 witness: one finished job whose call returned, and one whose call raised
\* because the loan file was gone by the time the worker looked it up.
C8_Witness ==
    \E a, b \in DOMAIN sync_outcome :
        /\ jobs[a].completed_at # None /\ ~sync_outcome[a].raised
        /\ jobs[b].completed_at # None /\ sync_outcome[b].raised
        /\ sync_outcome[b].value.type = "HTTPException"

\* C9: a thread that holds no call is free to take one, also after failures,
\* so a queued call is taken whenever fewer than 3 jobs are being executed;
\* and once some job has failed, every other accepted job is still executed
\* to its end and, if its call returns, ends "completed" with that result.
C9_FailureIsolated ==
    /\ [](\A w \in Workers : Executing(w) = {} => pc[w] = "idle")
    /\ [](work_queue # <<>> /\ Cardinality(ExecutingJobs) < 3
            => ENABLED WorkerTake)
    /\ \A j \in PoolJobIds :
        (/\ j \in DOMAIN jobs
         /\ \E f \in DOMAIN jobs : f # j /\ jobs[f].status = "failed")
        ~> (/\ j \in DOMAIN sync_outcome
            /\ jobs[j].completed_at # None
            /\ ~sync_outcome[j].raised =>
                 /\ jobs[j].status = "completed"
                 /\ jobs[j].result = Some(sync_outcome[j].value))

\* C9 witness: after a job has failed, 3 other jobs are being processed at
\* the same time.
C9_Witness ==
    /\ \E f \in DOMAIN jobs : jobs[f].status = "failed" /\ jobs[f].completed_at # None
    /\ Cardinality({j \in DOMAIN jobs : jobs[j].status = "processing"}) = 3

\* The ids of a sequence of job ids.
Range(seq) == {seq[i] : i \in DOMAIN seq}

\* C10: the store holds one record per accepted submission, under pairwise
\* distinct ids; a record is created "pending"; no step removes a record or
\* changes its job_id, loan_id or created_at, and a submission changes no
\* record that exists.
C10_OneRecordPerSubmission ==
    [][/\ Cardinality(DOMAIN jobs') = Len(returned')
       /\ Range(returned') = DOMAIN jobs'
       /\ \A j \in DOMAIN jobs' \ DOMAIN jobs : jobs'[j].status = "pending"
       /\ \A j \in DOMAIN jobs :
            /\ j \in DOMAIN jobs'
            /\ jobs'[j].job_id = j
            /\ jobs'[j].loan_id = jobs[j].loan_id
            /\ jobs'[j].created_at = jobs[j].created_at
            /\ returned' # returned => jobs'[j] = jobs[j]]_vars

\* C10 witness: 4 submissions were accepted while earlier jobs were being
\* executed and finished.
C10_Witness ==
    /\ Len(returned) = 4
    /\ Cardinality(DOMAIN jobs) = 4
    /\ \E j \in DOMAIN jobs : jobs[j].status = "completed"
    /\ \E j \in DOMAIN jobs : jobs[j].status = "processing"

\* C11: a request for a subject the lookup does not resolve, on POST /process
\* or on POST /process/async, is answered 404 and changes nothing else: no
\* record is stored, no call is queued, the event loop and the threads do not
\* enter the workflow, and no artifact is written.
C11_UnresolvedSubjectIs404WithoutEffect ==
    [][\A loan_id \in ApiLoanIds :
          get_loan_file_path(loan_dir, loan_id).raised =>
              /\ process_loan_async(loan_id) =>
                    /\ response'[1].endpoint = "process_async"
                    /\ response'[1].code = 404
                    /\ UNCHANGED <<jobs, work_queue, pc, cur, local, loop,
                                   output_files, sync_outcome, returned>>
              /\ process_loan_entered(loan_id) =>
                    /\ response'[1].endpoint = "process"
                    /\ response'[1].code = 404
                    /\ UNCHANGED <<jobs, work_queue, pc, cur, local, loop,
                                   output_files, sync_outcome, returned>>]_vars

\* A submission for "L1" was accepted, its file was removed, and the next
\* submission for "L1" was answered 404 with the one record still alone.
C11_Witness ==
    /\ response = Some([endpoint |-> "process_async", code |-> 404,
                        body |-> "404: Loan file not found: L1"])
    /\ DOMAIN jobs = {1}
    /\ jobs[1].loan_id = "L1"

\* C12: GET /jobs/{job_id} answers 200 with the stored record exactly when
\* job_id is one an accepted submission returned, and 404 for any other id;
\* the read changes no record, stores no id and removes none.
C12_StatusReadFindsExactlyReturnedIds ==
    [][\A job_id \in 1..(MaxJobs + 1) :
          get_job_status(job_id) =>
              /\ response'[1].endpoint = "jobs"
              /\ response'[1].code = IF job_id \in Range(returned)
                                     THEN 200 ELSE 404
              /\ response'[1].code = 200 =>
                    /\ job_id \in DOMAIN jobs
                    /\ response'[1].body = jobs[job_id]
              /\ UNCHANGED <<jobs, returned, work_queue>>]_vars

\* The second job's record was read while still pending, after two accepted
\* submissions.
C12_Witness ==
    /\ response # None
    /\ response[1].endpoint = "jobs"
    /\ response[1].code = 200
    /\ response[1].body.job_id = 2
    /\ response[1].body.status = "pending"
    /\ returned = <<1, 2>>

\* A submission for loan_id served now and accepted: a 200 with a job id no
\* record has, status "pending"; the record stored as pending; the call at the
\* end of the queue; no thread moved.
AcceptedSubmission(loan_id) ==
    /\ process_loan_async(loan_id)
    /\ response'[1].endpoint = "process_async"
    /\ response'[1].code = 200
    /\ response'[1].body.status = "pending"
    /\ response'[1].body.job_id \notin DOMAIN jobs
    /\ DOMAIN jobs' = DOMAIN jobs \cup {response'[1].body.job_id}
    /\ jobs'[response'[1].body.job_id].status = "pending"
    /\ work_queue' = Append(work_queue, [job_id |-> response'[1].body.job_id,
                                         loan_id |-> loan_id])
    /\ UNCHANGED <<pc, cur, local>>

\* C13: whatever is queued and whatever the threads execute, a submission for
\* a subject the lookup resolves can be served at once and is accepted: it
\* does not wait for a thread and is not refused for load; and every
\* submission served for such a subject is accepted in that way.
C13_SubmissionNeverWaitsNorRejected ==
    /\ [](\A loan_id \in LoanIdInputs :
            (/\ lifespan_pc = "serving"
             /\ loop = None
             /\ ~get_loan_file_path(loan_dir, loan_id).raised)
            => ENABLED AcceptedSubmission(loan_id))
    /\ [][\A loan_id \in LoanIdInputs :
            (/\ ~get_loan_file_path(loan_dir, loan_id).raised
             /\ process_loan_async(loan_id))
            => AcceptedSubmission(loan_id)]_vars

\* The fourth submission was accepted with the three threads all executing
\* and its call waiting in the queue.
C13_Witness ==
    /\ response # None
    /\ response[1].code = 200
    /\ response[1].body.job_id = 4
    /\ \A w \in Workers : pc[w] # "idle"
    /\ Len(work_queue) = 1
    /\ jobs[4].status = "pending"

\* The pool refuses new work from the moment executor.shutdown is called.
PoolAcceptsWork == lifespan_pc = "serving"

\* Every accepted job is over and nothing is left to run.
AllAcceptedJobsOver ==
    /\ work_queue = <<>>
    /\ \A w \in Workers : pc[w] = "idle"
    /\ \A j \in Range(returned) :
          /\ j \in DOMAIN jobs
          /\ jobs[j].status \in Terminal
          /\ jobs[j].completed_at # None
    /\ \A j \in DOMAIN jobs : jobs[j].status # "processing"

\* C14 as stated: on shutdown the executions in flight finish before the pool
\* stops accepting new work (once it has stopped accepting, no thread is in an
\* execution), and when shutdown completes every accepted job is completed or
\* failed and none is processing.
C14_InFlightFinishBeforePoolRefuses ==
    /\ ~PoolAcceptsWork => \A w \in Workers : pc[w] = "idle"
    /\ lifespan_pc = "stopped" => AllAcceptedJobsOver

\* C14, amended: the pool stops accepting new work first and then runs what is
\* queued and in flight to its end; when shutdown completes every accepted job
\* is completed or failed, with its completion time, and none is processing or
\* queued.
C14_ShutdownCompletesAfterAllJobsOver ==
    lifespan_pc = "stopped" => AllAcceptedJobsOver

\* Shutdown has completed after four accepted jobs, one of which failed.
C14_Witness ==
    /\ lifespan_pc = "stopped"
    /\ Len(returned) = MaxPoolJobs
    /\ \E j \in DOMAIN jobs : jobs[j].status = "failed"
    /\ \E j \in DOMAIN jobs : jobs[j].status = "completed"

\* The "*.json" files of a directory that LoanFile.from_json accepts.
ParseableFiles(dir) == {f \in glob_json(dir) : ~from_json(dir, f).raised}

\* C15: the count a health check reports is the number of valid, parseable
\* loan files in the directory at that moment, which is the number of entries
\* list_loans returns for the same directory, whatever files it holds.
C15_HealthCountIsParseableFiles ==
    [][health_check =>
          /\ response'[1].body.sample_loans_available =
                 Cardinality(ParseableFiles(loan_dir))
          /\ \A order \in scan_orders(glob_json(loan_dir)) :
                 response'[1].body.sample_loans_available =
                     Len(list_loans_from(loan_dir, order, 1))]_vars

\* The calls of process_loan_sync in progress, by the thread they run on: a
\* pool thread, or 0 for the event loop.  Each is the call's frame, if any.
SyncCallOn(t) ==
    IF t = 0
    THEN IF loop = None THEN None ELSE loop[1].frame
    ELSE IF pc[t] = "l195" THEN local[t] ELSE None

\* The artifact a thread has open for writing (lines 173-178), if any.
OpenArtifact(t) ==
    {output_file_of(SyncCallOn(t)[i].loan_file) :
        i \in {k \in DOMAIN SyncCallOn(t) : SyncCallOn(t)[k].at = "l174"}}

\* C16: no two executions in progress at the same time, on two pool threads
\* or on a pool thread and the event loop, have the same artifact path open
\* for writing.
C16_NoArtifactWrittenByTwoExecutions ==
    \A t1, t2 \in 0..max_workers :
        t1 # t2 => OpenArtifact(t1) \cap OpenArtifact(t2) = {}

\* C17: the loan_id inside a job's result is the loan_id of the job's record,
\* the identifier given at submission, in whichever form the lookup accepted
\* it.
C17_ResultLoanIdIsRecordLoanId ==
    \A j \in DOMAIN jobs :
        jobs[j].result # None => jobs[j].result[1].loan_id = jobs[j].loan_id

\* C18: a step changes at most one record, and only as a statement of the
\* thread that executes that record's job; the other records, those of the
\* same subject included, stay as they are; no step changes the job_id or the
\* loan_id of a record or removes one; so handlers, the other threads, shutdown
\* and the directory leave a stored record alone.
C18_ExecutionChangesOnlyItsOwnRecord ==
    [][\A j \in DOMAIN jobs :
          /\ j \in DOMAIN jobs'
          /\ jobs'[j].job_id = jobs[j].job_id
          /\ jobs'[j].loan_id = jobs[j].loan_id
          /\ jobs'[j] # jobs[j] =>
                /\ \E w \in Workers : Executing(w) = {j} /\ pc'[w] # pc[w]
                /\ \A k \in DOMAIN jobs \ {j} : jobs'[k] = jobs[k]]_vars

\* Two jobs of the same subject: the first is completed with its result, the
\* second still as it was stored.
C18_Witness ==
    /\ DOMAIN jobs = {1, 2}
    /\ jobs[1].loan_id = jobs[2].loan_id
    /\ jobs[1].status = "completed"
    /\ jobs[1].result # None
    /\ jobs[2] = JobStatus(2, jobs[1].loan_id, "pending", now)

\* The event loop is inside a synchronous request's workflow (line 164).
SyncRequestRunsWorkflow ==
    /\ loop # None
    /\ loop[1].frame # None
    /\ loop[1].frame[1].at = "l164"

\* C19: while a synchronous request is running the workflow, a status read
\* for any job id and an async submission by another caller can be served:
\* they do not have to wait for the synchronous request to finish.
C19_SyncRequestBlocksOnlyItsCaller ==
    (lifespan_pc = "serving" /\ SyncRequestRunsWorkflow) =>
        /\ \A job_id \in 1..(MaxApiJobs + 1) : ENABLED get_job_status(job_id)
        /\ \A loan_id \in ApiLoanIds : ENABLED process_loan_async(loan_id)

====
